---- MODULE Spec2Model ----
(***************************************************************************)
(* Model of src/main.ts: the keyboard-to-trigger translation of            *)
(* UserInputManager and the spawn / per-frame disposal loop of             *)
(* App.spawnSphere.                                                        *)
(*                                                                         *)
(* Coordinates are kept in tenths of a scene unit, so that the positions   *)
(* 6.6 and -6.6 of the second application variant stay integers: the       *)
(* disposal threshold -25 is -250 and the spawn height 15 is 150.          *)
(*                                                                         *)
(* The rendering engine, the physics engine and the device source manager  *)
(* are external.  Physics is a nondeterministic choice of every body's Y   *)
(* before the pre-render observers run; Observable.add / remove / clear /  *)
(* notifyObservers are modelled on sequences of callbacks.                 *)
(***************************************************************************)
EXTENDS Integers, Sequences, FiniteSets, TLC

VARIABLES
    variant,        \* which of the two applications of main.ts is running
    app,            \* "none" until App.createAsync has constructed the App
    rejected,       \* the message of the error startup has thrown, or ""
    bodies,         \* the spheres created so far, in order of creation
    hooks,          \* scene.onBeforeRenderObservable: indices into bodies
    observers,      \* on{Left,Center,Right}ClickedObservable: callbacks
    keyboardInput,  \* the keyup closure is attached to the keyboard device
    deviceSourceManager, \* "active" or "disposed"
    onDispose,      \* observers left on engine.onDisposeObservable (addOnce)
    error,          \* a handler has thrown
    lastOp,         \* the handler that ran last
    lastEvent,      \* the device event it handled
    notified,       \* triggers it passed to notifyObservers, in order
    invoked,        \* subscribers (by spawn position) it invoked, in order
    checked         \* bodies whose disposal check it ran, in order

vars == <<variant, app, rejected, bodies, hooks, observers, keyboardInput, deviceSourceManager,
          onDispose, error, lastOp, lastEvent, notified, invoked, checked>>

\* The number of spheres one run of the model may create.
MaxBodies == 2

\* The number of subscribers a client may add to the three the App registers.
MaxSubscribers == 1

\* sphere.position.y < -25
Threshold == -250

Triggers == {"Left", "Center", "Right"}

Variants == {1, 2}

DeviceTypes == {"Keyboard", "Mouse", "Touch", "Generic"}

\* The eight bound key codes and one unbound one.
Codes == {"KeyA", "ArrowLeft", "KeyS", "KeyW", "ArrowUp", "ArrowDown",
          "KeyD", "ArrowRight", "KeyQ"}

EventTypes == {"keydown", "keyup"}

\* Heights the physics step may give a sphere besides the one it has:
\* exactly at the threshold and just below it.
YValues == {-250, -251}

NoEvent == [device |-> "None", type |-> "none", code |-> "none", metaKey |-> FALSE]

\* The position each trigger's subscriber passes to spawnSphere.
SpawnPosition(v, t) ==
    IF v = 1
    THEN CASE t = "Left"   -> <<0, 150, -30>>
           [] t = "Center" -> <<0, 150, 0>>
           [] t = "Right"  -> <<0, 150, 30>>
    ELSE CASE t = "Left"   -> <<-190, 40, 66>>
           [] t = "Center" -> <<-190, 40, 0>>
           [] t = "Right"  -> <<-190, 40, -66>>

\* The world as the handlers change it.
World == [bodies |-> bodies, hooks |-> hooks, error |-> error]

\* The fields of the UserInputManager instance.
UserInputManager ==
    [deviceSourceManager |-> deviceSourceManager, observers |-> observers,
     error |-> error]

\* A sequence without every occurrence of x.
Without(s, x) == SelectSeq(s, LAMBDA e : e # x)

\* spawnSphere without the registration of the observer.
spawnSphereNoObserver(position, w) ==
    [w EXCEPT !.bodies = Append(@, [sphere       |-> TRUE,
                                    inScene      |-> TRUE,
                                    disposeCalls |-> 0,
                                    spawn        |-> position,
                                    y            |-> position[2]])]

\* function spawnSphere(position): a mesh and its physics aggregate enter the
\* scene and a pre-render observer capturing them is registered.
spawnSphere(position, w) ==
    LET b == Len(w.bodies) + 1
    IN  [w EXCEPT !.bodies = Append(@, [sphere       |-> TRUE,
                                        inScene      |-> TRUE,
                                        disposeCalls |-> 0,
                                        spawn        |-> position,
                                        y            |-> position[2]]),
                  !.hooks  = Append(@, b)]

\* DisposalCheck with the observer left registered after the disposal.
DisposalCheckKeepsObserver(b, w) ==
    IF w.bodies[b].sphere /\ w.bodies[b].y < Threshold
    THEN [w EXCEPT !.bodies[b].inScene = FALSE,
                   !.bodies[b].disposeCalls = @ + 1,
                   !.bodies[b].sphere = FALSE]
    ELSE w

\* DisposalCheck comparing with <= instead of <.
DisposalCheckAtThreshold(b, w) ==
    IF w.bodies[b].sphere /\ w.bodies[b].y <= Threshold
    THEN [w EXCEPT !.bodies[b].inScene = FALSE,
                   !.bodies[b].disposeCalls = @ + 1,
                   !.bodies[b].sphere = FALSE,
                   !.hooks = Without(@, b)]
    ELSE w

\* DisposalCheck without the null test: reading the position of the null
\* sphere throws.
DisposalCheckNoNullTest(b, w) ==
    IF ~w.bodies[b].sphere
    THEN [w EXCEPT !.error = TRUE]
    ELSE IF w.bodies[b].y < Threshold
         THEN [w EXCEPT !.bodies[b].inScene = FALSE,
                        !.bodies[b].disposeCalls = @ + 1,
                        !.bodies[b].sphere = FALSE,
                        !.hooks = Without(@, b)]
         ELSE w

\* DisposalCheck clearing the whole observable instead of removing its own
\* observer.
DisposalCheckClearsObservable(b, w) ==
    IF w.bodies[b].sphere /\ w.bodies[b].y < Threshold
    THEN [w EXCEPT !.bodies[b].inScene = FALSE,
                   !.bodies[b].disposeCalls = @ + 1,
                   !.bodies[b].sphere = FALSE,
                   !.hooks = <<>>]
    ELSE w

\* The observer spawnSphere registers:
\*   if (sphere && sphere.position.y < -25) {
\*       sphere.dispose(); sphere = null;
\*       scene.onBeforeRenderObservable.remove(observer); }
\* Observable.remove of an observer that is not registered changes nothing.
DisposalCheck(b, w) ==
    IF w.bodies[b].sphere /\ w.bodies[b].y < Threshold
    THEN [w EXCEPT !.bodies[b].inScene = FALSE,
                   !.bodies[b].disposeCalls = @ + 1,
                   !.bodies[b].sphere = FALSE,
                   !.hooks = Without(@, b)]
    ELSE w

\* RunHooks stopping after the first observer.
RunHooksFirstOnly(hs, w) ==
    IF hs = <<>> THEN w ELSE DisposalCheck(Head(hs), w)

\* scene.onBeforeRenderObservable.notifyObservers: the observers registered
\* when the notification starts run in registration order.
RECURSIVE RunHooks(_, _)
RunHooks(hs, w) ==
    IF hs = <<>> THEN w
    ELSE RunHooks(Tail(hs), DisposalCheck(Head(hs), w))

\* Subscriber with every trigger spawning at the Center position.
SubscriberAlwaysCenter(v, t) == [position |-> SpawnPosition(v, "Center")]

\* The subscribers App registers on the three observables.
Subscriber(v, t) == [position |-> SpawnPosition(v, t)]

\* NotifySubscribers running the subscribers from the last registered to the
\* first.
RECURSIVE NotifySubscribersReversed(_, _)
NotifySubscribersReversed(subs, w) ==
    IF subs = <<>> THEN w
    ELSE NotifySubscribersReversed(SubSeq(subs, 1, Len(subs) - 1),
                                   spawnSphere(subs[Len(subs)].position, w))

\* Observable.notifyObservers on a trigger's observable: every subscriber
\* runs, in registration order; each one calls spawnSphere.
RECURSIVE NotifySubscribers(_, _)
NotifySubscribers(subs, w) ==
    IF subs = <<>> THEN w
    ELSE NotifySubscribers(Tail(subs), spawnSphere(Head(subs).position, w))

\* KeyTrigger with the two horizontal arrows exchanged.
KeyTriggerArrowsSwapped(code) ==
    CASE code \in {"KeyA", "ArrowRight"} -> "Left"
      [] code \in {"KeyS", "KeyW", "ArrowUp", "ArrowDown"} -> "Center"
      [] code \in {"KeyD", "ArrowLeft"} -> "Right"
      [] OTHER -> "None"

\* KeyTrigger with the case for KeyW left out.
KeyTriggerWithoutKeyW(code) ==
    CASE code \in {"KeyA", "ArrowLeft"} -> "Left"
      [] code \in {"KeyS", "ArrowUp", "ArrowDown"} -> "Center"
      [] code \in {"KeyD", "ArrowRight"} -> "Right"
      [] OTHER -> "None"

\* switch (keyboard.code) of the keyup branch.
KeyTrigger(code) ==
    CASE code \in {"KeyA", "ArrowLeft"} -> "Left"
      [] code \in {"KeyS", "KeyW", "ArrowUp", "ArrowDown"} -> "Center"
      [] code \in {"KeyD", "ArrowRight"} -> "Right"
      [] OTHER -> "None"

\* KeyboardHandler without the test of the event type.
KeyboardHandlerAnyType(ev) ==
    IF ev.metaKey THEN <<>>
    ELSE IF KeyTrigger(ev.code) # "None"
         THEN <<KeyTrigger(ev.code)>>
         ELSE <<>>

\* KeyboardHandler without the early return on metaKey.
KeyboardHandlerNoMetaTest(ev) ==
    IF ev.type = "keyup" /\ KeyTrigger(ev.code) # "None"
    THEN <<KeyTrigger(ev.code)>>
    ELSE <<>>

\* The closure on the keyboard's onInputChangedObservable: the triggers it
\* notifies for one event (at most one).
KeyboardHandler(ev) ==
    IF ev.metaKey THEN <<>>
    ELSE IF ev.type = "keyup" /\ KeyTrigger(ev.code) # "None"
         THEN <<KeyTrigger(ev.code)>>
         ELSE <<>>

\* The events a device of each type emits.
EventsOf(d) ==
    IF d = "Keyboard"
    THEN [device : {d}, type : EventTypes, code : Codes, metaKey : BOOLEAN]
    ELSE [device : {d}, type : {"pointerdown", "pointerup"}, code : {"none"},
          metaKey : {FALSE}]

\* The handlers this program has attached to a device's
\* onInputChangedObservable: the keyboard closure, and none for any other
\* device type.
HandlerTriggers(ev) ==
    IF ev.device = "Keyboard" THEN KeyboardHandler(ev) ELSE <<>>

\* createAsync returning an App on a plain Engine when neither engine is
\* supported.
createAsyncFallsBack(webgpu, webgl) ==
    IF webgpu THEN [engine |-> "WebGPUEngine", rejected |-> ""]
    ELSE [engine |-> "Engine", rejected |-> ""]

\* App.createAsync: the engine the App is constructed on, or the error
\* thrown when neither WebGPUEngine nor Engine is supported.
createAsync(webgpu, webgl) ==
    IF webgpu THEN [engine |-> "WebGPUEngine", rejected |-> ""]
    ELSE IF webgl THEN [engine |-> "Engine", rejected |-> ""]
    ELSE [engine |-> "none", rejected |-> "Engine cannot be created."]

\* The window's load handler: without #renderCanvas it throws, otherwise it
\* calls App.createAsync.
OnLoad(canvas, webgpu, webgl) ==
    IF ~canvas THEN [engine |-> "none", rejected |-> "Undefined #renderCanvas"]
    ELSE createAsync(webgpu, webgl)

\* The page before the load event: no engine, no scene, no input manager.
Init ==
    /\ variant \in Variants
    /\ app = "none"
    /\ rejected = ""
    /\ bodies = <<>>
    /\ hooks = <<>>
    /\ observers = [t \in Triggers |-> <<>>]
    /\ keyboardInput = FALSE
    /\ deviceSourceManager = "none"
    /\ onDispose = 0
    /\ error = FALSE
    /\ lastOp = "init"
    /\ lastEvent = NoEvent
    /\ notified = <<>>
    /\ invoked = <<>>
    /\ checked = <<>>

\* The load event.  When an engine is available the App constructor runs: it
\* creates the input manager, registers one subscriber per trigger, starts
\* the render loop and registers the dispose observer.
Load ==
    \E canvas \in BOOLEAN, webgpu \in BOOLEAN, webgl \in BOOLEAN :
        LET r == OnLoad(canvas, webgpu, webgl)
            created == r.engine # "none"
        IN  /\ app = "none"
            /\ rejected = ""
            /\ app' = IF created THEN "created" ELSE "none"
            /\ rejected' = r.rejected
            /\ observers' = IF created
                             THEN [t \in Triggers |-> <<Subscriber(variant, t)>>]
                             ELSE observers
            /\ deviceSourceManager' = IF created THEN "active"
                                       ELSE deviceSourceManager
            /\ onDispose' = IF created THEN 1 ELSE onDispose
            /\ lastOp' = "load"
            /\ lastEvent' = [device |-> "Window", type |-> "load",
                             code |-> IF ~canvas THEN "nocanvas"
                                      ELSE IF webgpu THEN "webgpu"
                                      ELSE IF webgl THEN "webgl" ELSE "none",
                             metaKey |-> FALSE]
            /\ notified' = <<>>
            /\ invoked' = <<>>
            /\ checked' = <<>>
            /\ UNCHANGED <<variant, bodies, hooks, keyboardInput, error>>

\* DeviceConnected with the Touch case sharing the Keyboard branch.
DeviceConnectedTouchAsKeyboard ==
    \E d \in DeviceTypes :
        /\ deviceSourceManager = "active"
        /\ keyboardInput' = (keyboardInput \/ d \in {"Keyboard", "Touch"})
        /\ lastOp' = "connect"
        /\ lastEvent' = [device |-> d, type |-> "connect", code |-> "none",
                         metaKey |-> FALSE]
        /\ notified' = <<>>
        /\ invoked' = <<>>
        /\ checked' = <<>>
        /\ UNCHANGED <<variant, app, rejected, bodies, hooks, observers,
                       deviceSourceManager, onDispose, error>>

\* deviceSourceManager.onDeviceConnectedObservable observer: a keyboard gets
\* the input closure, a mouse or a touch device nothing, any other type
\* returns at once.
DeviceConnected ==
    \E d \in DeviceTypes :
        /\ deviceSourceManager = "active"
        /\ keyboardInput' = (keyboardInput \/ d = "Keyboard")
        /\ lastOp' = "connect"
        /\ lastEvent' = [device |-> d, type |-> "connect", code |-> "none",
                         metaKey |-> FALSE]
        /\ notified' = <<>>
        /\ invoked' = <<>>
        /\ checked' = <<>>
        /\ UNCHANGED <<variant, app, rejected, bodies, hooks, observers, deviceSourceManager,
                       onDispose, error>>

\* A device event.  A keyboard emits events once it is connected, which is
\* when it gets the closure; the program keeps no state for the other device
\* types, so the model does not track their connection.  The closure stays
\* on the keyboard's own observable (the program never removes it), so the
\* model keeps delivering events to it whatever the state of the device
\* source manager.
HandleInput(ev) ==
    LET ts   == HandlerTriggers(ev)
        subs == IF ts = <<>> THEN <<>> ELSE observers[ts[1]]
        w    == NotifySubscribers(subs, World)
    IN  /\ ev.device = "Keyboard" => keyboardInput
        /\ Len(bodies) + Len(subs) <= MaxBodies
        /\ bodies' = w.bodies
        /\ hooks' = w.hooks
        /\ error' = w.error
        /\ lastOp' = "input"
        /\ lastEvent' = ev
        /\ notified' = ts
        /\ invoked' = subs
        /\ checked' = <<>>
        /\ UNCHANGED <<variant, app, rejected, observers, keyboardInput,
                       deviceSourceManager, onDispose>>

\* Any event of any device.
InputChanged ==
    \E d \in DeviceTypes : \E ev \in EventsOf(d) : HandleInput(ev)

\* The release, without meta, of one key of each trigger.
TriggerKeyReleased ==
    \E code \in {"KeyA", "KeyS", "KeyD"} :
        HandleInput([device |-> "Keyboard", type |-> "keyup", code |-> code,
                     metaKey |-> FALSE])

\* The physics engine moves one sphere that is still in the scene.
PhysicsStep ==
    \E b \in 1..Len(bodies) : \E y \in YValues :
        /\ bodies[b].inScene
        /\ bodies[b].y # y
        /\ bodies' = [bodies EXCEPT ![b].y = y]
        /\ lastOp' = "physics"
        /\ lastEvent' = NoEvent
        /\ notified' = <<>>
        /\ invoked' = <<>>
        /\ checked' = <<>>
        /\ UNCHANGED <<variant, app, rejected, hooks, observers, keyboardInput,
                       deviceSourceManager, onDispose, error>>

\* engine.runRenderLoop(() => scene.render()): one frame runs every
\* registered pre-render observer.
Render ==
    LET w == RunHooks(hooks, World)
    IN  /\ app = "created"
        /\ bodies' = w.bodies
        /\ hooks' = w.hooks
        /\ error' = w.error
        /\ lastOp' = "render"
        /\ lastEvent' = NoEvent
        /\ notified' = <<>>
        /\ invoked' = <<>>
        /\ checked' = hooks
        /\ UNCHANGED <<variant, app, rejected, observers, keyboardInput,
                       deviceSourceManager, onDispose>>

\* The observer closure of a sphere whose mesh was already disposed is run
\* once more.
CheckAgain ==
    \E b \in 1..Len(bodies) :
        LET w == DisposalCheck(b, World)
        IN  /\ ~bodies[b].inScene
            /\ bodies' = w.bodies
            /\ hooks' = w.hooks
            /\ error' = w.error
            /\ lastOp' = "recheck"
            /\ lastEvent' = NoEvent
            /\ notified' = <<>>
            /\ invoked' = <<>>
            /\ checked' = <<b>>
            /\ UNCHANGED <<variant, app, rejected, observers, keyboardInput,
                           deviceSourceManager, onDispose>>

\* dispose without the clear() of the Center observable.
disposeKeepsCenter(m) ==
    [m EXCEPT !.deviceSourceManager = "disposed",
              !.observers["Left"] = <<>>,
              !.observers["Right"] = <<>>]

\* dispose throwing when the device source manager is already disposed.
disposeThrowsWhenDisposed(m) ==
    IF m.deviceSourceManager = "disposed"
    THEN [m EXCEPT !.error = TRUE]
    ELSE [m EXCEPT !.deviceSourceManager = "disposed",
                   !.observers["Left"] = <<>>,
                   !.observers["Center"] = <<>>,
                   !.observers["Right"] = <<>>]

\* UserInputManager.dispose(): the device source manager is disposed and the
\* three observables are cleared (no coroutine is ever started on them).
dispose(m) ==
    [m EXCEPT !.deviceSourceManager = "disposed",
              !.observers["Left"] = <<>>,
              !.observers["Center"] = <<>>,
              !.observers["Right"] = <<>>]

\* engine.onDisposeObservable.addOnce(() => userInputManager.dispose()).
EngineDispose ==
    /\ onDispose > 0
    /\ onDispose' = onDispose - 1
    /\ deviceSourceManager' = dispose(UserInputManager).deviceSourceManager
    /\ observers' = dispose(UserInputManager).observers
    /\ error' = dispose(UserInputManager).error
    /\ lastOp' = "dispose"
    /\ lastEvent' = NoEvent
    /\ notified' = <<>>
    /\ invoked' = <<>>
    /\ checked' = <<>>
    /\ UNCHANGED <<variant, app, rejected, bodies, hooks, keyboardInput>>

\* UserInputManager.dispose() is called once more on the disposed manager.
DisposeAgain ==
    /\ deviceSourceManager = "disposed"
    /\ deviceSourceManager' = dispose(UserInputManager).deviceSourceManager
    /\ observers' = dispose(UserInputManager).observers
    /\ error' = dispose(UserInputManager).error
    /\ lastOp' = "disposeAgain"
    /\ lastEvent' = NoEvent
    /\ notified' = <<>>
    /\ invoked' = <<>>
    /\ checked' = <<>>
    /\ UNCHANGED <<variant, app, rejected, bodies, hooks, keyboardInput, onDispose>>

Next ==
    \/ Load
    \/ DeviceConnected
    \/ InputChanged
    \/ PhysicsStep
    \/ Render
    \/ CheckAgain
    \/ EngineDispose
    \/ DisposeAgain

Spec == Init /\ [][Next]_vars

\* The running application seen from the render loop: bodies are spawned
\* by key releases, moved by the physics and checked by the frames.
NextFrames ==
    \/ Load
    \/ DeviceConnected
    \/ TriggerKeyReleased
    \/ PhysicsStep
    \/ Render

\* The render loop runs a frame again and again for as long as a frame has
\* something to do.
SpecFrames == Init /\ [][NextFrames]_vars /\ WF_vars(Render)

\* The number of subscribers registered on the three observables.
Registered ==
    Len(observers["Left"]) + Len(observers["Center"]) + Len(observers["Right"])

\* observable.add(() => spawnSphere(position)) on one of the three public
\* observables, as the App constructor does it, by any client of the manager:
\* the callback goes to the end of that observable's list.
Subscribe ==
    \E t \in Triggers, u \in Triggers :
        /\ app = "created"
        /\ deviceSourceManager = "active"
        /\ Registered < Cardinality(Triggers) + MaxSubscribers
        /\ observers' = [observers EXCEPT ![t] = Append(@, Subscriber(variant, u))]
        /\ lastOp' = "subscribe"
        /\ lastEvent' = NoEvent
        /\ notified' = <<>>
        /\ invoked' = <<>>
        /\ checked' = <<>>
        /\ UNCHANGED <<variant, app, rejected, bodies, hooks, keyboardInput,
                       deviceSourceManager, onDispose, error>>

\* The input manager with further subscribers added to its observables.
NextSubscribers ==
    \/ Load
    \/ DeviceConnected
    \/ Subscribe
    \/ InputChanged

SpecSubscribers == Init /\ [][NextSubscribers]_vars

(***************************************************************************)
(* The simplified application, which listens for pointer-up only.  Its     *)
(* source is not part of main.ts; it is modelled from the specification.   *)
(***************************************************************************)

\* The simplified application, beside the two of main.ts.
PointerVariant == 3

\* Where the simplified application spawns: the Center position (0, 15, 0).
PointerSpawnPosition == <<0, 150, 0>>

\* The pointer events the scene reports.
PointerEventTypes == {"pointerdown", "pointerup", "pointermove"}

\* The buttons a pointer event may carry.
PointerButtons == {"left", "middle", "right"}

\* PointerHandler firing on the press instead of the release.
PointerHandlerOnDown(ev) ==
    IF ev.type = "pointerdown" THEN <<"Center">> ELSE <<>>

\* The pointer listener: a release is a Center trigger, whatever the button
\* and the position; every other pointer event is ignored.
PointerHandler(ev) ==
    IF ev.type = "pointerup" THEN <<"Center">> ELSE <<>>

\* The simplified application once constructed: one Center subscriber, no
\* keyboard translation.
InitPointer ==
    /\ variant = PointerVariant
    /\ app = "created"
    /\ rejected = ""
    /\ bodies = <<>>
    /\ hooks = <<>>
    /\ observers = [t \in Triggers |->
                        IF t = "Center"
                        THEN <<[position |-> PointerSpawnPosition]>>
                        ELSE <<>>]
    /\ keyboardInput = FALSE
    /\ deviceSourceManager = "none"
    /\ onDispose = 0
    /\ error = FALSE
    /\ lastOp = "init"
    /\ lastEvent = NoEvent
    /\ notified = <<>>
    /\ invoked = <<>>
    /\ checked = <<>>

\* A pointer event reaches the listener.
PointerEvent ==
    \E type \in PointerEventTypes, button \in PointerButtons :
        LET ev   == [device |-> "Mouse", type |-> type, code |-> button,
                     metaKey |-> FALSE]
            ts   == PointerHandler(ev)
            subs == IF ts = <<>> THEN <<>> ELSE observers[ts[1]]
            w    == NotifySubscribers(subs, World)
        IN  /\ Len(bodies) + Len(subs) <= MaxBodies
            /\ bodies' = w.bodies
            /\ hooks' = w.hooks
            /\ error' = w.error
            /\ lastOp' = "pointer"
            /\ lastEvent' = ev
            /\ notified' = ts
            /\ invoked' = subs
            /\ checked' = <<>>
            /\ UNCHANGED <<variant, app, rejected, observers, keyboardInput,
                           deviceSourceManager, onDispose>>

NextPointer ==
    \/ PointerEvent
    \/ PhysicsStep
    \/ Render
    \/ CheckAgain

SpecPointer == InitPointer /\ [][NextPointer]_vars

TypeOK ==
    /\ variant \in Variants
    /\ Len(bodies) <= MaxBodies
    /\ \A i \in 1..Len(hooks) : hooks[i] \in 1..Len(bodies)
    /\ deviceSourceManager \in {"none", "active", "disposed"}
    /\ error \in BOOLEAN

(***************************************************************************)
(* Spawned body lifecycle.                                                 *)
(***************************************************************************)

\* The elements of a sequence.
Range(s) == {s[i] : i \in 1..Len(s)}

\* The bodies whose check, in the frame that just ran, read a Y below the
\* threshold.  A disposed body keeps the Y it was disposed at.
Fallen == {b \in Range(checked) : bodies[b].y < Threshold}

\* C1: a frame whose disposal check sees a body below the threshold disposes
\* exactly that body once: its mesh leaves the scene by a single call of
\* dispose, its observer is no longer registered, and the number of
\* registered pre-render observers drops by one for each such body.
C1_ExactlyOneDisposal ==
    /\ \A b \in 1..Len(bodies) : bodies[b].disposeCalls <= 1
    /\ lastOp = "render" =>
        /\ \A b \in Fallen :
            /\ ~bodies[b].inScene
            /\ ~bodies[b].sphere
            /\ bodies[b].disposeCalls = 1
            /\ b \notin Range(hooks)
        /\ Len(hooks) = Len(checked) - Cardinality(Fallen)

\* A frame has just disposed exactly one body: one observer fewer.
C1_Witness ==
    /\ lastOp = "render"
    /\ Cardinality(Fallen) = 1
    /\ \E b \in Fallen : ~bodies[b].inScene /\ bodies[b].disposeCalls = 1
    /\ Len(hooks) = Len(checked) - 1

\* The bodies spawned at (0, 15, 0).
CenterSpawned == {b \in 1..Len(bodies) : bodies[b].spawn = <<0, 150, 0>>}

\* C2: for a body spawned at (0, 15, 0), a check that reads Y < -25 disposes
\* it in that frame, a check that reads Y >= -25 (-25 included) leaves it
\* live with its observer registered, and no body is disposed at a Y that is
\* not below -25.
C2_DisposedAtFirstBelow ==
    /\ \A b \in CenterSpawned : ~bodies[b].inScene => bodies[b].y < -250
    /\ lastOp = "render" =>
        \A b \in CenterSpawned \cap Range(checked) :
            IF bodies[b].y < -250
            THEN ~bodies[b].inScene /\ ~bodies[b].sphere /\ b \notin Range(hooks)
            ELSE /\ bodies[b].inScene /\ bodies[b].sphere
                 /\ bodies[b].disposeCalls = 0
                 /\ b \in Range(hooks)

\* One frame checked two bodies spawned at (0, 15, 0): the one at exactly -25
\* is live and registered, the one below -25 is disposed.
C2_Witness ==
    /\ lastOp = "render"
    /\ \E a, b \in CenterSpawned \cap Range(checked) :
        /\ bodies[a].y = -250 /\ bodies[a].inScene /\ a \in Range(hooks)
        /\ bodies[b].y < -250 /\ ~bodies[b].inScene /\ b \notin Range(hooks)

\* What the scene holds of body b.
Handle(b) ==
    [sphere |-> bodies[b].sphere, inScene |-> bodies[b].inScene,
     disposeCalls |-> bodies[b].disposeCalls, hooked |-> b \in Range(hooks)]

\* C3: running the check of an already disposed body raises no error and
\* changes neither the bodies nor the registered observers; a disposed body
\* stays disposed in every step.
C3_RecheckIsNoOp ==
    [][/\ lastOp' = "recheck" => (~error' /\ bodies' = bodies /\ hooks' = hooks)
       /\ \A b \in 1..Len(bodies) :
            ~bodies[b].inScene =>
                /\ ~bodies'[b].inScene /\ ~bodies'[b].sphere
                /\ bodies'[b].disposeCalls = 1
                /\ b \notin Range(hooks')]_vars

\* The check of a disposed body has just run again.
C3_Witness ==
    /\ lastOp = "recheck"
    /\ \E b \in Range(checked) :
        ~bodies[b].inScene /\ ~bodies[b].sphere /\ bodies[b].disposeCalls = 1
    /\ ~error

\* C4: what the scene holds of a body (its mesh, its closure's reference, its
\* observer) changes only in a frame in which that body's own observer is
\* registered and reads its own Y below the threshold; the disposal of any
\* other body leaves it as it was.
C4_IndependentDisposal ==
    [][\A b \in 1..Len(bodies) :
        Handle(b)' # Handle(b) =>
            /\ lastOp' = "render"
            /\ b \in Range(hooks)
            /\ bodies[b].y < Threshold]_vars

\* A frame checked two bodies and disposed only the one below the threshold.
C4_Witness ==
    /\ lastOp = "render"
    /\ \E a, b \in Range(checked) :
        /\ a # b
        /\ ~bodies[a].inScene /\ bodies[a].y < Threshold
        /\ bodies[b].inScene /\ bodies[b].sphere /\ b \in Range(hooks)

(***************************************************************************)
(* Keyboard translation.                                                   *)
(***************************************************************************)

\* The last step handled a keyboard event of this type and meta state.
KeyEvent(type, meta) ==
    /\ lastOp = "input"
    /\ lastEvent.device = "Keyboard"
    /\ lastEvent.type = type
    /\ lastEvent.metaKey = meta

\* C5: a key release of KeyA or ArrowLeft without meta notifies Left exactly
\* once and nothing else; the subscribers invoked are those registered for
\* Left, none of them the Center or the Right subscriber.
C5_LeftKeys ==
    (KeyEvent("keyup", FALSE) /\ lastEvent.code \in {"KeyA", "ArrowLeft"}) =>
        /\ notified = <<"Left">>
        /\ invoked = observers["Left"]
        /\ \A i \in 1..Len(invoked) :
            /\ invoked[i] # Subscriber(variant, "Center")
            /\ invoked[i] # Subscriber(variant, "Right")

\* ArrowLeft was released and the Left subscriber alone ran.
C5_Witness ==
    /\ KeyEvent("keyup", FALSE) /\ lastEvent.code = "ArrowLeft"
    /\ notified = <<"Left">>
    /\ invoked = <<Subscriber(variant, "Left")>>

\* C6: a key release without meta of S, W, ArrowUp or ArrowDown notifies
\* Center only, of D or ArrowRight Right only, and of a key outside the eight
\* bound ones nothing.
C6_KeyTable ==
    KeyEvent("keyup", FALSE) =>
        /\ lastEvent.code \in {"KeyS", "KeyW", "ArrowUp", "ArrowDown"} =>
            notified = <<"Center">> /\ invoked = observers["Center"]
        /\ lastEvent.code \in {"KeyD", "ArrowRight"} =>
            notified = <<"Right">> /\ invoked = observers["Right"]
        /\ lastEvent.code \notin {"KeyA", "ArrowLeft", "KeyS", "KeyW", "ArrowUp",
                                  "ArrowDown", "KeyD", "ArrowRight"} =>
            notified = <<>> /\ invoked = <<>>

\* KeyW was released and the Center subscriber alone ran.
C6_Witness ==
    /\ KeyEvent("keyup", FALSE) /\ lastEvent.code = "KeyW"
    /\ notified = <<"Center">>
    /\ invoked = <<Subscriber(variant, "Center")>>

\* C7: a key press notifies no trigger and invokes no subscriber, whatever the
\* key, and no keyboard event notifies more than one trigger.
C7_PressIgnored ==
    /\ (lastOp = "input" /\ lastEvent.type = "keydown") =>
            notified = <<>> /\ invoked = <<>>
    /\ lastOp = "input" => Len(notified) <= 1

\* A bound key was pressed without meta while the subscribers were still
\* registered, and nothing fired.
C7_Witness ==
    /\ KeyEvent("keydown", FALSE) /\ lastEvent.code = "KeyS"
    /\ observers["Center"] # <<>>
    /\ notified = <<>>

\* C8: a key release with meta held notifies no trigger and invokes no
\* subscriber, for any key.
C8_MetaIgnored ==
    KeyEvent("keyup", TRUE) => notified = <<>> /\ invoked = <<>>

\* A bound key was released with meta held while the subscribers were still
\* registered, and nothing fired.
C8_Witness ==
    /\ KeyEvent("keyup", TRUE) /\ lastEvent.code = "KeyA"
    /\ observers["Left"] # <<>>
    /\ notified = <<>>

(***************************************************************************)
(* Teardown.                                                               *)
(***************************************************************************)

\* C9: once UserInputManager.dispose has run, no pre-render observer of a
\* spawned body is registered.
C9_HooksGoneAfterDispose ==
    deviceSourceManager = "disposed" => hooks = <<>>

\* C10: once UserInputManager.dispose has run, the three observables are
\* empty and the device source manager is disposed; from then on no device
\* event invokes a subscriber and no body is created.
C10_NoSpawnAfterDispose ==
    [][/\ lastOp' = "dispose" => deviceSourceManager' = "disposed"
       /\ deviceSourceManager' = "disposed" =>
            /\ \A t \in Triggers : observers'[t] = <<>>
            /\ invoked' = <<>>
       /\ deviceSourceManager = "disposed" =>
            /\ deviceSourceManager' = "disposed"
            /\ Len(bodies') = Len(bodies)]_vars

\* After the dispose a bound key was released: Center was notified, no
\* subscriber ran and no body was created.
C10_Witness ==
    /\ deviceSourceManager = "disposed"
    /\ KeyEvent("keyup", FALSE) /\ lastEvent.code = "KeyS"
    /\ notified = <<"Center">>
    /\ invoked = <<>>
    /\ bodies = <<>>

\* C11: UserInputManager.dispose called again on a disposed manager, whose
\* observables hold no subscriber, raises no error and leaves the manager,
\* the bodies and the pre-render observers as the first call left them; the
\* first call raises no error either.
C11_DisposeIdempotent ==
    [][/\ lastOp' \in {"dispose", "disposeAgain"} => ~error'
       /\ lastOp' = "disposeAgain" =>
            /\ deviceSourceManager' = deviceSourceManager
            /\ observers' = observers
            /\ keyboardInput' = keyboardInput
            /\ bodies' = bodies
            /\ hooks' = hooks]_vars

\* dispose has just run a second time on a manager with no subscriber left.
C11_Witness ==
    /\ lastOp = "disposeAgain"
    /\ deviceSourceManager = "disposed"
    /\ \A t \in Triggers : observers[t] = <<>>
    /\ onDispose = 0
    /\ ~error

(***************************************************************************)
(* Startup.                                                                *)
(***************************************************************************)

\* C12: when the canvas exists and neither WebGPUEngine nor Engine is
\* supported, startup fails with 'Engine cannot be created.', and in every
\* state after that failure there is no App, no input manager, no trigger
\* subscriber, no body and no pre-render observer.
C12_NoEngineAbortsStartup ==
    /\ (lastOp = "load" /\ lastEvent.code = "none") =>
            rejected = "Engine cannot be created."
    /\ rejected = "Engine cannot be created." =>
        /\ app = "none"
        /\ deviceSourceManager = "none"
        /\ \A t \in Triggers : observers[t] = <<>>
        /\ onDispose = 0
        /\ ~keyboardInput
        /\ bodies = <<>>
        /\ hooks = <<>>
    /\ app = "created" => rejected = ""

\* The load event has just found no engine supported.
C12_Witness ==
    /\ lastOp = "load"
    /\ lastEvent.code = "none"
    /\ rejected = "Engine cannot be created."
    /\ app = "none"

(***************************************************************************)
(* Notification.                                                           *)
(***************************************************************************)

\* C13: when the handler of an event returns, every subscriber registered for
\* the notified trigger has run, once per registration and in registration
\* order: the bodies created last are those of the registered callbacks, one
\* per registration, in that order, each with its observer.
C13_NotifyInOrder ==
    (lastOp = "input" /\ notified # <<>>) =>
        LET subs == observers[notified[1]]
            n    == Len(subs)
            m    == Len(bodies)
        IN  /\ Len(notified) = 1
            /\ invoked = subs
            /\ n <= m
            /\ \A i \in 1..n :
                /\ bodies[m - n + i].spawn = subs[i].position
                /\ bodies[m - n + i].inScene
                /\ (m - n + i) \in Range(hooks)

\* A trigger with two different subscribers was notified: two bodies were
\* created, the first registered subscriber's first.
C13_Witness ==
    /\ lastOp = "input"
    /\ notified # <<>>
    /\ Len(invoked) = 2
    /\ invoked[1] # invoked[2]
    /\ Len(bodies) = 2
    /\ bodies[1].spawn = invoked[1].position
    /\ bodies[2].spawn = invoked[2].position

(***************************************************************************)
(* Devices other than the keyboard.                                        *)
(***************************************************************************)

\* C14: connecting a touch device or a device of an unrecognised type, and
\* any event such a device emits, notifies no trigger, invokes no subscriber,
\* attaches no handler, creates and disposes no body, changes no pre-render
\* observer and raises no error.
C14_OtherDevicesIgnored ==
    [][(lastOp' \in {"connect", "input"}
            /\ lastEvent'.device \in {"Touch", "Generic"}) =>
        /\ notified' = <<>>
        /\ invoked' = <<>>
        /\ keyboardInput' = keyboardInput
        /\ observers' = observers
        /\ bodies' = bodies
        /\ hooks' = hooks
        /\ ~error']_vars

\* A touch device emitted an event while the Center subscriber was
\* registered, and nothing fired.
C14_Witness ==
    /\ lastOp = "input"
    /\ lastEvent.device = "Touch"
    /\ lastEvent.type = "pointerup"
    /\ app = "created"
    /\ observers["Center"] # <<>>
    /\ notified = <<>>
    /\ invoked = <<>>

HooksOf(b) == Cardinality({i \in 1..Len(hooks) : hooks[i] = b})

\* Body b is in the scene and its closure still refers to it.
Live(b) == bodies[b].inScene /\ bodies[b].sphere

\* C16: before the teardown, every live body has exactly one registered
\* pre-render observer, a disposed body has none, and every registered
\* observer is that of a live body.
C16_HooksMatchLiveBodies ==
    deviceSourceManager # "disposed" =>
        /\ \A b \in 1..Len(bodies) :
            /\ bodies[b].inScene = bodies[b].sphere
            /\ HooksOf(b) = IF Live(b) THEN 1 ELSE 0
        /\ \A i \in 1..Len(hooks) :
            hooks[i] \in 1..Len(bodies) /\ Live(hooks[i])

\* Before the teardown, one body is live with its observer and another is
\* disposed without one.
C16_Witness ==
    /\ deviceSourceManager = "active"
    /\ \E a, b \in 1..Len(bodies) :
        /\ Live(a) /\ HooksOf(a) = 1
        /\ ~Live(b) /\ HooksOf(b) = 0 /\ bodies[b].disposeCalls = 1

\* The position the sources give for each trigger, in tenths: (0, 15, -3),
\* (0, 15, 0), (0, 15, 3) in the first application and (-19, 4, 6.6),
\* (-19, 4, 0), (-19, 4, -6.6) in the second.
ConfiguredPosition(v, t) ==
    <<IF v = 1 THEN 0 ELSE -190,
      IF v = 1 THEN 150 ELSE 40,
      CASE t = "Left"   -> IF v = 1 THEN -30 ELSE 66
        [] t = "Center" -> 0
        [] t = "Right"  -> IF v = 1 THEN 30 ELSE -66>>

\* C17: while the subscribers are registered, an event that notifies a trigger
\* creates exactly one body, live, at that trigger's configured position and
\* with its own observer, and leaves every other body and observer as it
\* was; an event that notifies nothing changes no body and no observer.  The
\* three positions differ.
C17_OneBodyPerNotification ==
    [][(lastOp' = "input" /\ deviceSourceManager = "active") =>
        /\ notified' # <<>> =>
            /\ bodies' = Append(bodies,
                    [sphere       |-> TRUE,
                     inScene      |-> TRUE,
                     disposeCalls |-> 0,
                     spawn        |-> ConfiguredPosition(variant, notified'[1]),
                     y            |-> ConfiguredPosition(variant, notified'[1])[2]])
            /\ hooks' = Append(hooks, Len(bodies) + 1)
        /\ notified' = <<>> => (bodies' = bodies /\ hooks' = hooks)
        /\ \A t, u \in Triggers :
            t # u => ConfiguredPosition(variant, t) # ConfiguredPosition(variant, u)]_vars

\* A Right notification has just added a second body, at the Right position,
\* beside a body spawned at another position.
C17_Witness ==
    /\ lastOp = "input"
    /\ deviceSourceManager = "active"
    /\ notified = <<"Right">>
    /\ Len(bodies) = 2
    /\ bodies[2].spawn = ConfiguredPosition(variant, "Right")
    /\ bodies[1].spawn # bodies[2].spawn
    /\ hooks = <<1, 2>>

\* Body b exists, is live and is below the threshold.
Below(b) == b <= Len(bodies) /\ Live(b) /\ bodies[b].y < Threshold

\* C18: with frames that keep coming, a live body below the threshold is
\* disposed unless the physics lifts it back to the threshold or above
\* before the next frame; and no step disposes a live body that is at or
\* above the threshold or removes its observer, so a body that stays there
\* is never disposed; and a body is disposed only by a frame whose check
\* finds it below the threshold.
C18_DisposedIffSeenBelow ==
    /\ \A b \in 1..MaxBodies :
        Below(b) ~> (b <= Len(bodies) /\ (~Live(b) \/ bodies[b].y >= Threshold))
    /\ [][\A b \in 1..Len(bodies) :
            (Live(b) /\ bodies[b].y >= Threshold) =>
                (Live(b)' /\ b \in Range(hooks'))]_vars
    /\ [][\A b \in 1..Len(bodies) :
            (Live(b) /\ ~Live(b)') =>
                /\ lastOp' = "render"
                /\ b \in Range(checked')
                /\ bodies[b].y < Threshold]_vars

\* As many bodies as the model may create exist; a frame has just disposed
\* one that was below the threshold and left the others, at or above it,
\* live and registered.
C18_Witness ==
    /\ lastOp = "render"
    /\ Len(bodies) = MaxBodies
    /\ \E a \in Range(checked) : ~Live(a) /\ bodies[a].y < Threshold
    /\ \A b \in Range(checked) :
        bodies[b].y >= Threshold => (Live(b) /\ b \in Range(hooks))
    /\ Len(hooks) = MaxBodies - 1

====
